---- MODULE Spec2Model ----
(***************************************************************************)
(* tpu-info: the libtpu runtime-metrics client (metrics.get_chip_usage)    *)
(* and its command-line caller (cli.print_chip_info).                      *)
(*                                                                         *)
(* One invocation of print_chip_info is modelled as a sequential process:  *)
(* it discovers the local chips, prints the chip table, calls              *)
(* get_chip_usage (three blocking GetRuntimeMetric calls, each response    *)
(* sorted by its integer attribute, the length assertion, the assembly     *)
(* loops) and prints the utilization table.  The libtpu metrics server is  *)
(* the environment: `server` fixes what it answers to each metric name.    *)
(*                                                                         *)
(* Two such processes exist, each with its own channel, server and locals, *)
(* as the code gives every call of get_chip_usage its own.  Spec runs one  *)
(* of them once over a wide range of responses; SpecQueries runs both at   *)
(* the same time, each making several queries with changing responses.     *)
(***************************************************************************)
EXTENDS Integers, Sequences, FiniteSets

\* ------------------------------------------------------------------ bounds

\* Longest metric list the server answers with.
MaxLen == 4

\* Most chips the server reports a duty cycle for.
MaxChips == 2

\* Queries a process makes one after the other.
MaxRuns == 2

\* Largest accelerators_per_chip of a chip type (the catalog is device.py).
MaxCoresPerChip == 2

\* ------------------------------------------------------------- data model

\* MetricName (metrics.py:28-33), in the order get_chip_usage requests them.
TOTAL_MEMORY == "tpu.runtime.hbm.memory.total.bytes"
MEMORY_USAGE == "tpu.runtime.hbm.memory.usage.bytes"
DUTY_CYCLE_PCT == "tpu.runtime.tensorcore.dutycycle.percent"

MetricName == {TOTAL_MEMORY, MEMORY_USAGE, DUTY_CYCLE_PCT}

\* A tpu_metrics.Metric as get_chip_usage reads it: attribute.value.int_attr
\* and the gauge (as_int for the memory metrics, as_double for duty cycle).
Metric(a, g) == [attr |-> a, gauge |-> g]

\* CoreUsage (metrics.py:36-41).
CoreUsage(id, used, total) ==
  [core_id |-> id, memory_usage |-> used, total_memory |-> total]

\* ChipUsage (metrics.py:44-49).
ChipUsage(cores, duty) == [core_usage |-> cores, duty_cycle_pct |-> duty]

\* device.get_local_chips() found no chip: chip_type is None.
NoChip == 0

\* A chip type is represented by its accelerators_per_chip.
ChipTypes == 1..MaxCoresPerChip

\* grpc status codes of a failed call.
UNAVAILABLE == "UNAVAILABLE"
INTERNAL == "INTERNAL"
OK == "OK"

\* The grpc.RpcError a failed GetRuntimeMetric raises; e.code() is its code.
RpcError(c) == [type |-> "RpcError", code |-> c, message |-> "", data |-> <<>>]

\* What the failed length assertion raises (metrics.py:83-85): an
\* AssertionError whose only argument is the fixed message; `data` lists the
\* numbers attached to the exception, and the assertion attaches none of the
\* lists or of accelerators_per_chip.
assertion_error_with_lengths(t, u, d, cpc) ==
  [type |-> "AssertionError", code |-> "",
   message |-> "Metrics not found for all chips",
   data |-> <<Len(t), Len(u), Len(d), cpc>>]

assertion_error(t, u, d, cpc) ==
  [type |-> "AssertionError", code |-> "",
   message |-> "Metrics not found for all chips", data |-> <<>>]

NoError == [type |-> "", code |-> "", message |-> "", data |-> <<>>]

\* e.code() == grpc.StatusCode.UNAVAILABLE  (cli.py:80)
any_rpc_error(e) == TRUE

is_unavailable(e) == e.code = UNAVAILABLE

\* ------------------------------------------------------- pure computations

\* list.insert keeping the order by attribute; a sample goes after every
\* sample whose key is not greater than its own (sorted() is stable).
RECURSIVE InsertByAttr(_, _)
InsertByAttr(s, m) ==
  IF s = <<>> THEN <<m>>
  ELSE IF m.attr < Head(s).attr THEN <<m>> \o s
  ELSE <<Head(s)>> \o InsertByAttr(Tail(s), m)

RECURSIVE SortByAttr(_)
SortByAttr(s) ==
  IF s = <<>> THEN <<>>
  ELSE InsertByAttr(SortByAttr(SubSeq(s, 1, Len(s) - 1)), s[Len(s)])

\* sorted(resp.metric.metrics, key=lambda m: m.attribute.value.int_attr)
unsorted_metric_response(metrics) == metrics

sorted_metric_response(metrics) == SortByAttr(metrics)

\* The assertion's condition: len(totals) == len(usages) ==
\* len(duty_cycle_pct) * accelerators_per_chip  (a chained comparison).
LengthsConsistentIgnoringUsages(t, u, d, cpc) ==
  Len(t) = Len(d) * cpc

LengthsConsistent(t, u, d, cpc) ==
  /\ Len(t) = Len(u)
  /\ Len(u) = Len(d) * cpc

\* 0-based list index chip_idx * accelerators_per_chip + core_idx
CoreIndexWithoutFanOut(chip_idx, core_idx, cpc) == chip_idx + core_idx

CoreIndex(chip_idx, core_idx, cpc) == chip_idx * cpc + core_idx

\* The CoreUsage appended for (chip_idx, core_idx), metrics.py:95-99.
core_usage_at_swapped(t, u, chip_idx, core_idx, cpc) ==
  CoreUsage(u[CoreIndex(chip_idx, core_idx, cpc) + 1].attr,
            t[CoreIndex(chip_idx, core_idx, cpc) + 1].gauge,
            u[CoreIndex(chip_idx, core_idx, cpc) + 1].gauge)

core_usage_at(t, u, chip_idx, core_idx, cpc) ==
  CoreUsage(u[CoreIndex(chip_idx, core_idx, cpc) + 1].attr,
            u[CoreIndex(chip_idx, core_idx, cpc) + 1].gauge,
            t[CoreIndex(chip_idx, core_idx, cpc) + 1].gauge)

\* The ChipUsage built for chip_idx, metrics.py:89-100.
chip_usage_at_first_duty_cycle(t, u, d, chip_idx, cpc) ==
  ChipUsage([core_idx1 \in 1..cpc |->
               core_usage_at(t, u, chip_idx, core_idx1 - 1, cpc)],
            d[1].gauge)

chip_usage_at(t, u, d, chip_idx, cpc) ==
  ChipUsage([core_idx1 \in 1..cpc |->
               core_usage_at(t, u, chip_idx, core_idx1 - 1, cpc)],
            d[chip_idx + 1].gauge)

\* The loop over range(len(duty_cycle_pct)), appending to `usage`.
RECURSIVE assemble(_, _, _, _, _, _)
RECURSIVE assemble_one_short(_, _, _, _, _, _)
assemble_one_short(acc, t, u, d, chip_idx, cpc) ==
  IF chip_idx >= Len(d) - 1 THEN acc
  ELSE assemble_one_short(Append(acc, chip_usage_at(t, u, d, chip_idx, cpc)),
                          t, u, d, chip_idx + 1, cpc)

assemble(acc, t, u, d, chip_idx, cpc) ==
  IF chip_idx >= Len(d) THEN acc
  ELSE assemble(Append(acc, chip_usage_at(t, u, d, chip_idx, cpc)),
                t, u, d, chip_idx + 1, cpc)

\* usage = []  (metrics.py:87): every call starts from a new, empty list,
\* whatever an earlier call left behind.
kept_usage_list(left_behind) == left_behind

new_usage_list(left_behind) == <<>>

\* Where get_chip_usage goes after a GetRuntimeMetric call: on to the next
\* statement, or out through the raised RpcError.
continue_after_call(status, next) == next

after_call(status, next) == IF status = OK THEN next ELSE "except"


\* ------------------------------------------------------------------ state

\* The processes that call print_chip_info: each call of get_chip_usage
\* opens its own channel (metrics.py:65-66) and has its own locals.
Procs == {1, 2}

VARIABLES
  server,          \* per process: its server's answer to each metric name
  chip_type,       \* per process: device.get_local_chips(), NoChip or the type
  pc,              \* per process: where print_chip_info stands
  calls,           \* per process: metric names requested by get_chip_usage
  totals,          \* per process: get_chip_usage locals, the sorted lists
  usages,
  duty_cycle_pct,
  usage,           \* per process: get_chip_usage local, the list being built
  chip_usage,      \* per process: what get_chip_usage returned
  exc,             \* per process: the exception raised, NoError if none
  printed,         \* per process: what the console has shown, in order
  exit,            \* per process: how print_chip_info ended
  run,             \* per process: number of the current query
  previous         \* per process: the query before the current one

vars == <<server, chip_type, pc, calls, totals, usages, duty_cycle_pct,
          usage, chip_usage, exc, printed, exit, run, previous>>

NotReturned == [returned |-> FALSE, value |-> <<>>]
Returned(v) == [returned |-> TRUE, value |-> v]

\* Console events.
NoChipsMessage == "No TPU chips found."
ChipTable == "TPU Chips"
UnavailableMessage == "Libtpu metrics unavailable."
ConnectedMessage == "Connected to libtpu at grpc://localhost:8431..."
UtilizationTable == "TPU Chip Utilization"

\* One table.add_row per core (cli.py:94-105): the core id, and whether the
\* row shows the duty cycle (only the first core of a chip does).
RECURSIVE utilization_rows(_)
utilization_rows(chips) ==
  IF chips = <<>> THEN <<>>
  ELSE [c \in 1..Len(Head(chips).core_usage) |->
          [core_id |-> Head(chips).core_usage[c].core_id,
           shows_duty_cycle |-> (c = 1)]]
       \o utilization_rows(Tail(chips))

Text(msg) == [kind |-> "text", title |-> msg, rows |-> <<>>]
Table(title, rows) == [kind |-> "table", title |-> title, rows |-> rows]

\* print(...) under `if debug:`
debug_print(out, debug, msg) == IF debug THEN Append(out, Text(msg)) ELSE out

\* ------------------------------------------------------------ environment

\* Samples of the two memory metrics and of the duty-cycle metric.
MemorySamples == {Metric(0, 1), Metric(1, 0), Metric(1, 1)}
DutyCycleSamples == {Metric(0, 1), Metric(1, 0)}

Streams(S, n) == [1..n -> S]

\* The list a length check alone looks at: n samples, attributes 0..n-1.
Plain(n) == [k \in 1..n |-> Metric(k - 1, 1)]

Answer(metrics) == [status |-> OK, metrics |-> metrics]
Failure(code) == [status |-> code, metrics |-> <<>>]

Answers(t, u, d) ==
  [m \in MetricName |->
     IF m = TOTAL_MEMORY THEN t ELSE IF m = MEMORY_USAGE THEN u ELSE d]

\* What one query meets: the local chip type and the server's answers.
Input(cpc, t, u, d) == [chip_type |-> cpc, server |-> Answers(t, u, d)]

\* Process 1 meets `in`; the other processes never start.
Meets(in) ==
  /\ chip_type = [p \in Procs |-> IF p = 1 THEN in.chip_type ELSE NoChip]
  /\ server = [p \in Procs |->
                 IF p = 1 THEN in.server
                 ELSE Answers(Answer(<<>>), Answer(<<>>), Answer(<<>>))]

\* No chip: the server is never asked.
InitNoChip ==
  Meets(Input(NoChip, Answer(<<>>), Answer(<<>>), Answer(<<>>)))

\* Lists whose lengths agree with the chip type: any samples, in any order.
InitConsistent ==
  \E cpc \in ChipTypes : \E n \in 0..MaxChips :
    /\ n * cpc <= MaxLen
    /\ \E t \in Streams(MemorySamples, n * cpc) :
       \E u \in Streams(MemorySamples, n * cpc) :
       \E d \in Streams(DutyCycleSamples, n) :
         Meets(Input(cpc, Answer(t), Answer(u), Answer(d)))

\* Every core and chip reported once: attributes 0..n-1 in any order, each
\* core using as many bytes as its attribute says, of MaxLen bytes in total.
Permutations(n) ==
  {f \in [1..n -> 1..n] : \A a, b \in 1..n : f[a] = f[b] => a = b}

InitDistinct ==
  \E cpc \in ChipTypes : \E n \in 0..MaxChips :
    /\ n * cpc <= MaxLen
    /\ \E ft \in Permutations(n * cpc) :
       \E fu \in Permutations(n * cpc) :
       \E fd \in Permutations(n) :
         Meets(Input(cpc,
           Answer([k \in 1..(n * cpc) |-> Metric(ft[k] - 1, MaxLen)]),
           Answer([k \in 1..(n * cpc) |-> Metric(fu[k] - 1, fu[k] - 1)]),
           Answer([k \in 1..n |-> Metric(fd[k] - 1, fd[k])])))

\* Lists whose lengths disagree: the samples are never read.
InitInconsistent ==
  \E cpc \in ChipTypes : \E lt, lu \in 0..MaxLen : \E ld \in 0..MaxChips :
    /\ ~ (lt = lu /\ lu = ld * cpc)
    /\ Meets(Input(cpc, Answer(Plain(lt)), Answer(Plain(lu)),
                   Answer(Plain(ld))))

\* One of the three calls fails; the calls before it are answered.
InitFailing ==
  \E cpc \in ChipTypes : \E code \in {UNAVAILABLE, INTERNAL} :
  \E lt, lu \in 0..MaxLen : \E k \in 1..3 :
    Meets(Input(cpc,
                IF k = 1 THEN Failure(code) ELSE Answer(Plain(lt)),
                IF k = 2 THEN Failure(code) ELSE Answer(Plain(lu)),
                IF k = 3 THEN Failure(code) ELSE Answer(<<>>)))

\* The inputs of the queries that run side by side and one after the other:
\* two chips of two cores reported out of order, two one-core chips with
\* other figures, lists of irreconcilable lengths, a
\* server that is not running, a call that fails otherwise, and no chip.
Queries ==
  { Input(2,
          Answer(<<Metric(0, 4), Metric(1, 4), Metric(2, 4), Metric(3, 4)>>),
          Answer(<<Metric(3, 3), Metric(1, 1), Metric(0, 0), Metric(2, 2)>>),
          Answer(<<Metric(1, 2), Metric(0, 1)>>)),
    Input(1,
          Answer(<<Metric(1, 1), Metric(0, 1)>>),
          Answer(<<Metric(1, 0), Metric(0, 1)>>),
          Answer(<<Metric(0, 1), Metric(1, 0)>>)),
    Input(2, Answer(Plain(4)), Answer(Plain(3)), Answer(Plain(2))),
    Input(1, Answer(Plain(1)), Failure(UNAVAILABLE), Answer(<<>>)),
    Input(2, Answer(Plain(2)), Answer(Plain(2)), Failure(INTERNAL)),
    Input(NoChip, Answer(<<>>), Answer(<<>>), Answer(<<>>)) }

NoQuery ==
  [ran |-> FALSE, chip_type |-> NoChip,
   server |-> Answers(Answer(<<>>), Answer(<<>>), Answer(<<>>)),
   exit |-> "", exc |-> NoError, chip_usage |-> NotReturned]

\* Every process at the entry of print_chip_info; `on` are the processes
\* that run, the others never start.
InitProcs(on) ==
  /\ pc = [p \in Procs |-> IF p \in on THEN "start" ELSE "off"]
  /\ calls = [p \in Procs |-> <<>>]
  /\ totals = [p \in Procs |-> <<>>]
  /\ usages = [p \in Procs |-> <<>>]
  /\ duty_cycle_pct = [p \in Procs |-> <<>>]
  /\ usage = [p \in Procs |-> <<>>]
  /\ chip_usage = [p \in Procs |-> NotReturned]
  /\ exc = [p \in Procs |-> NoError]
  /\ printed = [p \in Procs |-> <<>>]
  /\ exit = [p \in Procs |-> ""]
  /\ run = [p \in Procs |-> 1]
  /\ previous = [p \in Procs |-> NoQuery]

\* One process, one query, any of the inputs.
Init ==
  /\ \/ InitNoChip
     \/ InitConsistent
     \/ InitDistinct
     \/ InitInconsistent
     \/ InitFailing
  /\ InitProcs({1})

\* Both processes, each starting with one of Queries.
InitQueries ==
  /\ \E in \in [Procs -> Queries] :
       /\ chip_type = [p \in Procs |-> in[p].chip_type]
       /\ server = [p \in Procs |-> in[p].server]
  /\ InitProcs(Procs)

\* ---------------------------------------------------------------- actions

\* print_chip_info up to the call of get_chip_usage (cli.py:41-77), and the
\* channel and stub of get_chip_usage (metrics.py:65-66).
Start(p) ==
  /\ pc[p] = "start"
  /\ IF chip_type[p] = NoChip
     THEN /\ printed' = [printed EXCEPT ![p] = Append(@, Text(NoChipsMessage))]
          /\ pc' = [pc EXCEPT ![p] = "done"]
          /\ exit' = [exit EXCEPT ![p] = "return"]
     ELSE /\ printed' = [printed EXCEPT ![p] = Append(@, Table(ChipTable, <<>>))]
          /\ pc' = [pc EXCEPT ![p] = "fetch_totals"]
          /\ exit' = exit
  /\ UNCHANGED <<server, chip_type, calls, totals, usages, duty_cycle_pct,
                 usage, chip_usage, exc, run, previous>>

\* client.GetRuntimeMetric(MetricRequest(metric_name)) inside
\* sorted_metric_response, on the caller's own channel: the response, or
\* the status of the call's RpcError.
GetRuntimeMetric(p, metric) == server[p][metric]

\* totals = sorted_metric_response(MetricName.TOTAL_MEMORY)
FetchTotals(p) ==
  /\ pc[p] = "fetch_totals"
  /\ calls' = [calls EXCEPT ![p] = Append(@, TOTAL_MEMORY)]
  /\ LET resp == GetRuntimeMetric(p, TOTAL_MEMORY) IN
     /\ pc' = [pc EXCEPT ![p] = after_call(resp.status, "fetch_usages")]
     /\ IF resp.status = OK
        THEN /\ totals' = [totals EXCEPT
                             ![p] = sorted_metric_response(resp.metrics)]
             /\ exc' = exc
        ELSE /\ totals' = totals
             /\ exc' = [exc EXCEPT ![p] = RpcError(resp.status)]
  /\ UNCHANGED <<server, chip_type, usages, duty_cycle_pct, usage,
                 chip_usage, printed, exit, run, previous>>

\* usages = sorted_metric_response(MetricName.MEMORY_USAGE)
FetchUsages(p) ==
  /\ pc[p] = "fetch_usages"
  /\ calls' = [calls EXCEPT ![p] = Append(@, MEMORY_USAGE)]
  /\ LET resp == GetRuntimeMetric(p, MEMORY_USAGE) IN
     /\ pc' = [pc EXCEPT ![p] = after_call(resp.status, "fetch_duty_cycle")]
     /\ IF resp.status = OK
        THEN /\ usages' = [usages EXCEPT
                             ![p] = sorted_metric_response(resp.metrics)]
             /\ exc' = exc
        ELSE /\ usages' = usages
             /\ exc' = [exc EXCEPT ![p] = RpcError(resp.status)]
  /\ UNCHANGED <<server, chip_type, totals, duty_cycle_pct, usage,
                 chip_usage, printed, exit, run, previous>>

\* duty_cycle_pct = sorted_metric_response(MetricName.DUTY_CYCLE_PCT)
FetchDutyCycle(p) ==
  /\ pc[p] = "fetch_duty_cycle"
  /\ calls' = [calls EXCEPT ![p] = Append(@, DUTY_CYCLE_PCT)]
  /\ LET resp == GetRuntimeMetric(p, DUTY_CYCLE_PCT) IN
     /\ pc' = [pc EXCEPT ![p] = after_call(resp.status, "assert")]
     /\ IF resp.status = OK
        THEN /\ duty_cycle_pct' = [duty_cycle_pct EXCEPT
                                     ![p] = sorted_metric_response(resp.metrics)]
             /\ exc' = exc
        ELSE /\ duty_cycle_pct' = duty_cycle_pct
             /\ exc' = [exc EXCEPT ![p] = RpcError(resp.status)]
  /\ UNCHANGED <<server, chip_type, totals, usages, usage, chip_usage,
                 printed, exit, run, previous>>

\* The length assertion (metrics.py:83-85).  An AssertionError is no
\* grpc.RpcError: print_chip_info does not catch it.
CheckLengths(p) ==
  /\ pc[p] = "assert"
  /\ IF LengthsConsistent(totals[p], usages[p], duty_cycle_pct[p], chip_type[p])
     THEN /\ pc' = [pc EXCEPT ![p] = "assemble"]
          /\ exc' = exc
          /\ exit' = exit
     ELSE /\ pc' = [pc EXCEPT ![p] = "done"]
          /\ exc' = [exc EXCEPT ![p] = assertion_error(
                       totals[p], usages[p], duty_cycle_pct[p], chip_type[p])]
          /\ exit' = [exit EXCEPT ![p] = "raise"]
  /\ UNCHANGED <<server, chip_type, calls, totals, usages, duty_cycle_pct,
                 usage, chip_usage, printed, run, previous>>

\* The two loops and the return (metrics.py:87-102); print_chip_info binds
\* the returned list (cli.py:77).
Assemble(p) ==
  /\ pc[p] = "assemble"
  /\ usage' = [usage EXCEPT ![p] =
                 assemble(new_usage_list(@), totals[p], usages[p],
                          duty_cycle_pct[p], 0, chip_type[p])]
  /\ chip_usage' = [chip_usage EXCEPT ![p] = Returned(usage'[p])]
  /\ pc' = [pc EXCEPT ![p] = "print"]
  /\ UNCHANGED <<server, chip_type, calls, totals, usages, duty_cycle_pct,
                 exc, printed, exit, run, previous>>

\* except grpc.RpcError as e (cli.py:78-89).
HandleRpcError(p) ==
  /\ pc[p] = "except"
  /\ \E debug \in BOOLEAN :
       IF is_unavailable(exc[p])
       THEN /\ printed' = [printed EXCEPT
                             ![p] = debug_print(@, debug, UnavailableMessage)]
            /\ exit' = [exit EXCEPT ![p] = "return"]
       ELSE /\ printed' = printed
            /\ exit' = [exit EXCEPT ![p] = "raise"]
  /\ pc' = [pc EXCEPT ![p] = "done"]
  /\ UNCHANGED <<server, chip_type, calls, totals, usages, duty_cycle_pct,
                 usage, chip_usage, exc, run, previous>>

\* The utilization table (cli.py:91-107).
PrintUtilization(p) ==
  /\ pc[p] = "print"
  /\ \E debug \in BOOLEAN :
       printed' = [printed EXCEPT ![p] =
                     Append(debug_print(@, debug, ConnectedMessage),
                            Table(UtilizationTable,
                                  utilization_rows(chip_usage[p].value)))]
  /\ pc' = [pc EXCEPT ![p] = "done"]
  /\ exit' = [exit EXCEPT ![p] = "return"]
  /\ UNCHANGED <<server, chip_type, calls, totals, usages, duty_cycle_pct,
                 usage, chip_usage, exc, run, previous>>

\* The query of process p is over and p makes another one, which may meet
\* another chip type and other answers.  Nothing of the finished call is
\* handed to the new one: its locals are left as they were and are assigned
\* before they are read.
Rerun(p) ==
  /\ pc[p] = "done"
  /\ run[p] < MaxRuns
  /\ previous' = [previous EXCEPT ![p] =
                    [ran |-> TRUE, chip_type |-> chip_type[p],
                     server |-> server[p], exit |-> exit[p],
                     exc |-> exc[p], chip_usage |-> chip_usage[p]]]
  /\ \E in \in Queries :
       /\ chip_type' = [chip_type EXCEPT ![p] = in.chip_type]
       /\ server' = [server EXCEPT ![p] = in.server]
  /\ run' = [run EXCEPT ![p] = @ + 1]
  /\ pc' = [pc EXCEPT ![p] = "start"]
  /\ calls' = [calls EXCEPT ![p] = <<>>]
  /\ chip_usage' = [chip_usage EXCEPT ![p] = NotReturned]
  /\ exc' = [exc EXCEPT ![p] = NoError]
  /\ printed' = [printed EXCEPT ![p] = <<>>]
  /\ exit' = [exit EXCEPT ![p] = ""]
  /\ UNCHANGED <<totals, usages, duty_cycle_pct, usage>>

Next ==
  \E p \in Procs :
    \/ Start(p)
    \/ FetchTotals(p)
    \/ FetchUsages(p)
    \/ FetchDutyCycle(p)
    \/ CheckLengths(p)
    \/ Assemble(p)
    \/ HandleRpcError(p)
    \/ PrintUtilization(p)

\* One query of one process.
Spec == Init /\ [][Next]_vars

NextQueries ==
  \/ Next
  \/ \E p \in Procs : Rerun(p)

\* Both processes at the same time, each making up to MaxRuns queries.
SpecQueries == InitQueries /\ [][NextQueries]_vars

\* ----------------------------------------------------------- the claims

\* The raw lists of the three responses, as the server sent them to p.
RawTotals(p) == server[p][TOTAL_MEMORY].metrics
RawUsages(p) == server[p][MEMORY_USAGE].metrics
RawDutyCycle(p) == server[p][DUTY_CYCLE_PCT].metrics

AllAnswered(p) == \A m \in MetricName : server[p][m].status = OK

\* The three raw lengths reconcile under the chip type's fan-out.
RawConsistent(p) ==
  /\ Len(RawTotals(p)) = Len(RawUsages(p))
  /\ Len(RawUsages(p)) = Len(RawDutyCycle(p)) * chip_type[p]

\* get_chip_usage is called and all three responses arrive.
Fetched(p) == pc[p] # "off" /\ chip_type[p] # NoChip /\ AllAnswered(p)

\* A call of p's query fails.
CallFails(p) == pc[p] # "off" /\ chip_type[p] # NoChip /\ ~ AllAnswered(p)

\* The place sample k of list s takes once s is ordered by attribute,
\* samples of equal attribute keeping their order.
Rank(s, k) ==
  Cardinality({m \in 1..Len(s) :
                 \/ s[m].attr < s[k].attr
                 \/ s[m].attr = s[k].attr /\ m <= k})

Ascending(s) ==
  [i \in 1..Len(s) |-> s[CHOOSE k \in 1..Len(s) : Rank(s, k) = i]]

DistinctAttrs(s) ==
  \A a, b \in 1..Len(s) : s[a].attr = s[b].attr => a = b

PermutationsOf(s) ==
  {[k \in 1..Len(s) |-> s[f[k]]] : f \in Permutations(Len(s))}

\* get_chip_usage run on three answered lists.
ChipUsagesOf(t, u, d, cpc) ==
  assemble(<<>>, sorted_metric_response(t), sorted_metric_response(u),
           sorted_metric_response(d), 0, cpc)

\* The metric whose call fails first, in the order of the calls.
FailedMetric(p) ==
  IF server[p][TOTAL_MEMORY].status # OK THEN TOTAL_MEMORY
  ELSE IF server[p][MEMORY_USAGE].status # OK THEN MEMORY_USAGE
  ELSE DUTY_CYCLE_PCT

CallOrder == <<TOTAL_MEMORY, MEMORY_USAGE, DUTY_CYCLE_PCT>>

CallsUpTo(metric) ==
  IF metric = TOTAL_MEMORY THEN SubSeq(CallOrder, 1, 1)
  ELSE IF metric = MEMORY_USAGE THEN SubSeq(CallOrder, 1, 2)
  ELSE CallOrder

ShowsUtilizationTable(p) ==
  \E k \in 1..Len(printed[p]) :
    printed[p][k].kind = "table" /\ printed[p][k].title = UtilizationTable

PastLengthCheck(p) == pc[p] \in {"assemble", "print", "done"}

\* C1: once the three lists are fetched and the length assertion has been
\* evaluated, get_chip_usage has failed with the assertion's error and
\* returned no list exactly when the raw lengths do not satisfy
\* len(totals) = len(usages) = len(dutyCycle) * coresPerChip.
C1_InconsistentLengthsFail ==
  \A p \in Procs :
    /\ (Fetched(p) /\ PastLengthCheck(p) /\ ~ RawConsistent(p)) =>
         /\ exc[p].type = "AssertionError"
         /\ ~ chip_usage[p].returned
         /\ pc[p] = "done"
         /\ exit[p] = "raise"
    /\ exc[p].type = "AssertionError" => (Fetched(p) /\ ~ RawConsistent(p))

C1_Witness ==
  \E p \in Procs :
    /\ exc[p].type = "AssertionError"
    /\ chip_type[p] = 2
    /\ Len(RawDutyCycle(p)) = 2
    /\ Len(RawTotals(p)) = 4
    /\ Len(RawUsages(p)) = 3

\* C2: core j of returned chip i pairs the usage sample and the totals
\* sample at place i*coresPerChip + j of the two raw lists ordered by
\* attribute; its coreId is that usage sample's attribute.
C2_CoresPairSortedSamples ==
  \A p \in Procs :
    chip_usage[p].returned =>
      LET sU == Ascending(RawUsages(p))
          sT == Ascending(RawTotals(p))
          out == chip_usage[p].value
          cpc == chip_type[p]
      IN \A i \in 0..(Len(RawDutyCycle(p)) - 1) : \A j \in 0..(cpc - 1) :
           /\ i + 1 \in DOMAIN out
           /\ j + 1 \in DOMAIN out[i + 1].core_usage
           /\ out[i + 1].core_usage[j + 1] =
                [core_id |-> sU[i * cpc + j + 1].attr,
                 memory_usage |-> sU[i * cpc + j + 1].gauge,
                 total_memory |-> sT[i * cpc + j + 1].gauge]

C2_Witness ==
  \E p \in Procs :
    /\ chip_usage[p].returned
    /\ chip_type[p] = 2
    /\ Len(chip_usage[p].value) = 2
    /\ RawUsages(p) # Ascending(RawUsages(p))
    /\ RawTotals(p) # Ascending(RawTotals(p))
    /\ chip_usage[p].value[2].core_usage[2].core_id # 3

\* C3 as stated: the duty cycle of returned chip i is the gauge of sample i
\* of the raw duty-cycle list.
C3_DutyCycleOfRawSample ==
  \A p \in Procs :
    chip_usage[p].returned =>
      \A i \in 1..Len(RawDutyCycle(p)) :
        /\ i \in DOMAIN chip_usage[p].value
        /\ chip_usage[p].value[i].duty_cycle_pct = RawDutyCycle(p)[i].gauge

\* C3, amended: the duty cycle of returned chip i is the gauge of sample i
\* of the duty-cycle list ordered by attribute, copied once per chip.
C3_DutyCycleOfSortedSample ==
  \A p \in Procs :
    chip_usage[p].returned =>
      \A i \in 1..Len(RawDutyCycle(p)) :
        /\ i \in DOMAIN chip_usage[p].value
        /\ chip_usage[p].value[i].duty_cycle_pct
             = Ascending(RawDutyCycle(p))[i].gauge

C3_Witness ==
  \E p \in Procs :
    /\ chip_usage[p].returned
    /\ Len(chip_usage[p].value) = 2
    /\ RawDutyCycle(p) # Ascending(RawDutyCycle(p))
    /\ chip_usage[p].value[1].duty_cycle_pct
         # chip_usage[p].value[2].duty_cycle_pct

\* C4: when the attributes within each raw list are pairwise distinct,
\* replacing any one of the three lists by any permutation of it leaves the
\* returned list unchanged (the permuted input is again such an input, so
\* the same holds after permuting two or all three).
C4_OrderIndependent ==
  \A p \in Procs :
    ( /\ chip_usage[p].returned
      /\ DistinctAttrs(RawTotals(p))
      /\ DistinctAttrs(RawUsages(p))
      /\ DistinctAttrs(RawDutyCycle(p)) ) =>
      /\ \A t \in PermutationsOf(RawTotals(p)) :
           ChipUsagesOf(t, RawUsages(p), RawDutyCycle(p), chip_type[p])
             = chip_usage[p].value
      /\ \A u \in PermutationsOf(RawUsages(p)) :
           ChipUsagesOf(RawTotals(p), u, RawDutyCycle(p), chip_type[p])
             = chip_usage[p].value
      /\ \A d \in PermutationsOf(RawDutyCycle(p)) :
           ChipUsagesOf(RawTotals(p), RawUsages(p), d, chip_type[p])
             = chip_usage[p].value

C4_Witness ==
  \E p \in Procs :
    /\ chip_usage[p].returned
    /\ chip_type[p] = 2
    /\ [k \in 1..Len(RawUsages(p)) |-> RawUsages(p)[k].attr] = <<3, 1, 0, 2>>
    /\ DistinctAttrs(RawTotals(p))
    /\ RawTotals(p) # Ascending(RawTotals(p))
    /\ RawDutyCycle(p) # Ascending(RawDutyCycle(p))

\* Every usage sample has exactly one totals sample of its attribute, and
\* its value lies between 0 and that sample's value.
UsageWithinItsTotal(p) ==
  \A k \in 1..Len(RawUsages(p)) :
    /\ Cardinality({m \in 1..Len(RawTotals(p)) :
                      RawTotals(p)[m].attr = RawUsages(p)[k].attr}) = 1
    /\ \A m \in 1..Len(RawTotals(p)) :
         RawTotals(p)[m].attr = RawUsages(p)[k].attr =>
           /\ 0 <= RawUsages(p)[k].gauge
           /\ RawUsages(p)[k].gauge <= RawTotals(p)[m].gauge

CoresWithinTotal(p) ==
  \A i \in 1..Len(chip_usage[p].value) :
    \A j \in 1..Len(chip_usage[p].value[i].core_usage) :
      /\ 0 <= chip_usage[p].value[i].core_usage[j].memory_usage
      /\ chip_usage[p].value[i].core_usage[j].memory_usage
           <= chip_usage[p].value[i].core_usage[j].total_memory

\* C5 as stated: if every usage sample is within the totals sample of its
\* attribute, every returned core has 0 <= memory usage <= total memory.
C5_UsageWithinTotal ==
  \A p \in Procs :
    (chip_usage[p].returned /\ UsageWithinItsTotal(p)) => CoresWithinTotal(p)

\* C5, amended: the same, for usage lists whose attributes are pairwise
\* distinct.
C5_UsageWithinTotalDistinct ==
  \A p \in Procs :
    ( /\ chip_usage[p].returned
      /\ UsageWithinItsTotal(p)
      /\ DistinctAttrs(RawUsages(p)) ) => CoresWithinTotal(p)

C5_Witness ==
  \E p \in Procs :
    /\ chip_usage[p].returned
    /\ UsageWithinItsTotal(p)
    /\ DistinctAttrs(RawUsages(p))
    /\ Len(RawUsages(p)) = 2
    /\ RawUsages(p) # Ascending(RawUsages(p))
    /\ RawTotals(p) = Ascending(RawTotals(p))
    /\ RawTotals(p)[1].gauge # RawTotals(p)[2].gauge
    /\ CoresWithinTotal(p)

\* C6: the returned list has one record per duty-cycle sample and every
\* record has coresPerChip cores.
C6_OutputShape ==
  \A p \in Procs :
    chip_usage[p].returned =>
      /\ Len(chip_usage[p].value) = Len(RawDutyCycle(p))
      /\ \A i \in 1..Len(chip_usage[p].value) :
           Len(chip_usage[p].value[i].core_usage) = chip_type[p]

C6_Witness ==
  \E p \in Procs :
    /\ chip_usage[p].returned
    /\ chip_type[p] = 1
    /\ Len(RawDutyCycle(p)) = 2
    /\ Len(chip_usage[p].value) = 2

\* C7: when a call fails, print_chip_info ends without a returned list and
\* without the utilization table; on UNAVAILABLE it returns normally, on
\* any other status it raises that same error.
C7_UnavailableIsRecoverable ==
  \A p \in Procs :
    (pc[p] = "done" /\ CallFails(p)) =>
      /\ ~ chip_usage[p].returned
      /\ ~ ShowsUtilizationTable(p)
      /\ exc[p] = RpcError(server[p][FailedMetric(p)].status)
      /\ server[p][FailedMetric(p)].status = UNAVAILABLE => exit[p] = "return"
      /\ server[p][FailedMetric(p)].status # UNAVAILABLE => exit[p] = "raise"

C7_Witness ==
  \E p \in Procs :
    /\ pc[p] = "done"
    /\ exc[p] = RpcError(UNAVAILABLE)
    /\ exit[p] = "return"
    /\ server[p][MEMORY_USAGE].status = UNAVAILABLE

\* C8: the metrics are requested at most once each, in the order total
\* memory, used memory, duty cycle; a failed call is the last one, after it
\* neither the length check nor the assembly runs and nothing is returned;
\* a returned list has taken exactly the three calls.
C8_CallsInOrderNoRetry ==
  \A p \in Procs :
    /\ Len(calls[p]) <= 3
    /\ calls[p] = SubSeq(CallOrder, 1, Len(calls[p]))
    /\ exc[p].type = "RpcError" =>
         /\ pc[p] \in {"except", "done"}
         /\ calls[p] = CallsUpTo(FailedMetric(p))
         /\ ~ chip_usage[p].returned
    /\ CallFails(p) =>
         /\ pc[p] \notin {"assert", "assemble", "print"}
         /\ exc[p].type # "AssertionError"
         /\ Len(calls[p]) <= Len(CallsUpTo(FailedMetric(p)))
    /\ chip_usage[p].returned => calls[p] = CallOrder

C8_Witness ==
  \E p \in Procs :
    /\ pc[p] = "done"
    /\ exc[p].type = "RpcError"
    /\ calls[p] = <<TOTAL_MEMORY, MEMORY_USAGE>>

\* The query p has just finished, and the one it finished before.
Finished(p) ==
  [ran |-> TRUE, chip_type |-> chip_type[p], server |-> server[p],
   exit |-> exit[p], exc |-> exc[p], chip_usage |-> chip_usage[p]]

FinishedQueries ==
  {Finished(p) : p \in {q \in Procs : pc[q] = "done"}}
    \cup {previous[p] : p \in {q \in Procs : previous[q].ran}}

SameInputs(a, b) == a.chip_type = b.chip_type /\ a.server = b.server

SameOutcome(a, b) ==
  a.exit = b.exit /\ a.exc = b.exc /\ a.chip_usage = b.chip_usage

\* C9: any two finished queries that met the same chip type and the same
\* three responses ended the same way (the same returned list, or the same
\* failure), whichever process made them, whatever that process queried
\* before, and whatever the other process was doing meanwhile.
C9_OutcomeDependsOnOwnInputs ==
  \A a, b \in FinishedQueries : SameInputs(a, b) => SameOutcome(a, b)

\* Process p has finished a query after an earlier one with other inputs
\* that returned another list, q has finished the same query as its first,
\* both returned two chips.
C9_Witness ==
  \E p, q \in Procs :
    /\ p # q
    /\ pc[p] = "done" /\ pc[q] = "done"
    /\ SameInputs(Finished(p), Finished(q))
    /\ chip_usage[p].returned
    /\ Len(chip_usage[p].value) = 2
    /\ chip_usage[q] = chip_usage[p]
    /\ previous[p].ran
    /\ ~ SameInputs(previous[p], Finished(p))
    /\ previous[p].chip_usage.returned
    /\ previous[p].chip_usage.value # <<>>
    /\ ~ previous[q].ran

\* C10 as stated: the error of the failed length check carries the three
\* lengths and coresPerChip.
C10_ErrorCarriesLengths ==
  \A p \in Procs :
    exc[p].type = "AssertionError" =>
      exc[p].data = <<Len(RawTotals(p)), Len(RawUsages(p)),
                      Len(RawDutyCycle(p)), chip_type[p]>>

\* C10, amended: the error of the failed length check is an AssertionError
\* that carries the fixed message and none of the four numbers.
C10_ErrorCarriesMessageOnly ==
  \A p \in Procs :
    (Fetched(p) /\ PastLengthCheck(p) /\ ~ RawConsistent(p)) =>
      /\ exc[p].type = "AssertionError"
      /\ exc[p].message = "Metrics not found for all chips"
      /\ exc[p].data = <<>>

C10_Witness ==
  \E p \in Procs :
    /\ exc[p].type = "AssertionError"
    /\ exc[p].data = <<>>
    /\ Len(RawTotals(p)) # Len(RawUsages(p))

====
